---------------------------- MODULE Spec2Model ----------------------------
(***************************************************************************)
(* A model of download-hexpm.py, the mirror script of repo.hex.pm.         *)
(*                                                                         *)
(*   SpecPlan   determine_files_to_download on a catalog and a local disk  *)
(*   SpecMain   the task list main() assembles: get_extra_files_list, the  *)
(*              catalog, determine_files_to_download, extend               *)
(*   SpecFetch  get_full_repo_data: page batches on a process pool, with   *)
(*              download_package_page's rate-limit loop and error()        *)
(*   SpecExec   download_files_in_parallel: download_file on a process     *)
(*              pool, its open/write/remove steps, and process interrupts  *)
(*   SpecVerify file_with_hash_exists on a path and a digest string, next  *)
(*              to the manifest tasks of the same disk                     *)
(*   SpecRun    main() from get_extra_files_list to the end of the         *)
(*              download pool, then the task list of the next invocation   *)
(*   SpecConverge  SpecRun with every download_file call going well        *)
(*   SpecFetchFair  SpecFetch with every page request answered in the end  *)
(*                                                                         *)
(* Paths and URLs are the strings the code formats.  The local disk is a   *)
(* function from the paths of the files that exist to their content, next  *)
(* to the set of the directories that exist.                               *)
(***************************************************************************)
EXTENDS Naturals, Sequences, FiniteSets, TLC

VARIABLES
    disk,              \* local files: path |-> content, for the files that exist
    manifests,         \* remote installs/*.csv: csv file name |-> parsed rows
    pages,             \* remote catalog: page n of /api/packages is pages[n], empty past the end
    pc,                \* position of the main process
    full_list,         \* main / get_full_repo_data: the packages collected
    extra_files_list,  \* main: the result of get_extra_files_list
    download_list,     \* main: the (url, filepath) tasks
    page_block_index,  \* get_full_repo_data: first page of the current batch
    last_page,         \* get_full_repo_data: an empty page has been seen
    job,               \* pool of get_full_repo_data: page |-> state of its download_package_page call
    task,              \* pool of download_files_in_parallel: index |-> state of its download_file call
    signal,            \* "none", "SIGINT" once the process group has got it, "killed" once its processes are ended
    dirs,              \* local directories: the set of the paths of those that exist
    verify             \* a file_with_hash_exists call: its arguments, and its result once it has returned

vars == <<disk, manifests, pages, pc, full_list, extra_files_list, download_list,
          page_block_index, last_page, job, task, signal, dirs, verify>>

-----------------------------------------------------------------------------
(* Bounds of the model.                                                    *)

MaxPackages == 2       \* packages of a catalog handed to the planner
MaxReleases == 2       \* releases of one package
MaxRemote == 3         \* packages, releases and manifest rows of the remote together, for main
MaxPages == 4          \* pages the remote catalog holds, blank ones among them
MaxRateLimits == 2     \* 429 answers the remote gives to one page call
MaxTasks == 3          \* tasks handed to download_files_in_parallel
NumJobs == 2           \* num_download_jobs, the processes of the download pool
MaxVerifyRows == 1     \* rows of the manifest next to a file_with_hash_exists call
MaxRunFailures == 1    \* download_file calls of one run of main that fail

Names == {"a", "b"}
Versions == {"1", "2"}
HexVers == {"1", "2"}
ElixirVers == {"e"}
\* Digest strings a manifest may record.
Hashes == {"ab", "cd"}

SeqsUpTo(S, n) == UNION {[1..k -> S] : k \in 0..n}

Range(s) == {s[i] : i \in 1..Len(s)}

-----------------------------------------------------------------------------
(* The file system and the string formats of the code.                     *)

\* main, --dir: the default download directory.
DownloadDir == "./repo.hex.pm"

\* os.path.join on relative, non-empty components.
path_join(a, b) == a \o "/" \o b

\* os.path.isfile
isfile(filepath) == filepath \in DOMAIN disk

\* The files of d except filepath (os.remove on an existing file).
RemoveFile(d, filepath) == [p \in (DOMAIN d) \ {filepath} |-> d[p]]

\* The files of d with filepath holding content: the path is created when
\* it has no file.
PutFile(d, filepath, content) ==
    [p \in (DOMAIN d) \cup {filepath} |-> IF p = filepath THEN content ELSE d[p]]

\* The position of the last "/" of path, 0 when it has none.
LastSlash(path) ==
    LET slashes == {i \in 1..Len(path) : SubSeq(path, i, i) = "/"}
    IN  IF slashes = {} THEN 0 ELSE CHOOSE i \in slashes : \A j \in slashes : j <= i

\* os.path.dirname, for paths whose components are parted by single slashes.
dirname(path) == SubSeq(path, 1, LastSlash(path) - 1)

\* os.makedirs(dir, exist_ok=True): dir and every directory above it exist
\* afterwards; those that existed stay.
makedirs(ds, dir) ==
    ds \cup {SubSeq(dir, 1, i - 1) : i \in {k \in 2..Len(dir) : SubSeq(dir, k, k) = "/"}}
       \cup {dir}

\* The directories a local disk implies: the working directory and the
\* directories above every file.
DirsOf(d) == {"."} \cup UNION {makedirs({}, dirname(p)) : p \in DOMAIN d}

\* No file_with_hash_exists call is under way.
NoCall == [state |-> "none"]

\* "https://repo.hex.pm/packages/%s" % name
package_url(name) == "https://repo.hex.pm/packages/" \o name

\* os.path.join(download_dir, "packages", name)
local_package_file(download_dir, name) ==
    path_join(path_join(download_dir, "packages"), name)

\* "https://repo.hex.pm/tarballs/%s-%s.tar" % (name, version)
tarball_url(name, version) ==
    "https://repo.hex.pm/tarballs/" \o name \o "-" \o version \o ".tar"

\* os.path.join(download_dir, "tarballs", "%s-%s.tar" % (name, version))
local_file(download_dir, name, version) ==
    path_join(path_join(download_dir, "tarballs"), name \o "-" \o version \o ".tar")

-----------------------------------------------------------------------------
(* determine_files_to_download                                             *)

\* The inner loop over package["releases"]: a tarball task for each release
\* whose local file is missing.
RECURSIVE release_tasks(_, _, _)
release_tasks(name, releases, download_dir) ==
    IF releases = <<>> THEN <<>>
    ELSE LET version == Head(releases).version
             rest == release_tasks(name, Tail(releases), download_dir)
         IN  IF ~isfile(local_file(download_dir, name, version))
             THEN <<<<tarball_url(name, version), local_file(download_dir, name, version)>>>> \o rest
             ELSE rest

\* Mutant: the package file is always re-downloaded.
package_tasks_always(package, download_dir) ==
    release_tasks(package.name, package.releases, download_dir)
        \o <<<<package_url(package.name), local_package_file(download_dir, package.name)>>>>

\* One iteration of the outer loop: the tarball tasks, then the package file
\* when include_package is set or the package file is missing.
package_tasks(package, download_dir) ==
    LET tarballs == release_tasks(package.name, package.releases, download_dir)
        include_package == tarballs # <<>>
    IN  IF include_package \/ ~isfile(local_package_file(download_dir, package.name))
        THEN tarballs \o <<<<package_url(package.name),
                             local_package_file(download_dir, package.name)>>>>
        ELSE tarballs

RECURSIVE determine_files_to_download(_, _)
determine_files_to_download(packages, download_dir) ==
    IF packages = <<>> THEN <<>>
    ELSE package_tasks(Head(packages), download_dir)
             \o determine_files_to_download(Tail(packages), download_dir)


-----------------------------------------------------------------------------
(* file_with_hash_exists and download_and_process_hex_csv                   *)

\* hashlib.sha512(content).hexdigest(): lower-case hex digits.  The digests
\* of the contents the model uses are told apart; any other content has "ef".
sha512_hexdigest(content) ==
    CASE content = "x" -> "ab"
      [] content = "y" -> "cd"
      [] OTHER -> "ef"

\* Mutant: a path with no file counts as a match.
file_with_hash_exists_or_missing(filepath, hash) ==
    ~isfile(filepath) \/ sha512_hexdigest(disk[filepath]) = hash

file_with_hash_exists(filepath, hash) ==
    isfile(filepath) /\ sha512_hexdigest(disk[filepath]) = hash

\* "%s-%s%s" % (file_prefix, hex_ver, file_suffix)
install_name(file_prefix, hex_ver, file_suffix) ==
    file_prefix \o "-" \o hex_ver \o file_suffix

\* "https://repo.hex.pm/installs/%s/%s-%s%s" % (elixir_ver, file_prefix, hex_ver, file_suffix)
install_url(row, file_prefix, file_suffix) ==
    "https://repo.hex.pm/installs/" \o row.elixir_ver \o "/"
        \o install_name(file_prefix, row.hex_ver, file_suffix)

\* os.path.join(download_dir, "installs", elixir_ver, "%s-%s%s" % (...))
install_file(download_dir, row, file_prefix, file_suffix) ==
    path_join(path_join(path_join(download_dir, "installs"), row.elixir_ver),
              install_name(file_prefix, row.hex_ver, file_suffix))

\* Mutant: every row makes an entry of its own, with its one hash.
unique_filepaths_per_row(unique, rows, download_dir, file_prefix, file_suffix) ==
    unique \o [i \in 1..Len(rows) |->
                 [filepath |-> install_file(download_dir, rows[i], file_prefix, file_suffix),
                  url |-> install_url(rows[i], file_prefix, file_suffix),
                  hashes |-> <<rows[i].hash>>]]

\* The first loop: unique_filepaths, a dict in insertion order, as the
\* sequence of its values; every row adds its hash to the entry of its file.
RECURSIVE unique_filepaths(_, _, _, _, _)
unique_filepaths(unique, rows, download_dir, file_prefix, file_suffix) ==
    IF rows = <<>> THEN unique
    ELSE LET row == Head(rows)
             file == install_file(download_dir, row, file_prefix, file_suffix)
             url == install_url(row, file_prefix, file_suffix)
             known == {i \in 1..Len(unique) : unique[i].filepath = file}
             added == IF known = {}
                      THEN Append(unique, [filepath |-> file, url |-> url, hashes |-> <<>>])
                      ELSE unique
             at == CHOOSE i \in 1..Len(added) : added[i].filepath = file
         IN  unique_filepaths([added EXCEPT ![at].hashes = Append(@, row.hash)],
                              Tail(rows), download_dir, file_prefix, file_suffix)

\* Mutant: only the last hash recorded for the file is accepted.
hash_match_last_only(entry) ==
    file_with_hash_exists(entry.filepath, entry.hashes[Len(entry.hashes)])

\* The inner loop of the second one: match is set when any hash of the entry
\* is the hash of the local file.
hash_match(entry) ==
    \E i \in 1..Len(entry.hashes) : file_with_hash_exists(entry.filepath, entry.hashes[i])

\* The second loop: a task for every unique file without a match.
RECURSIVE unmatched_tasks(_)
unmatched_tasks(unique) ==
    IF unique = <<>> THEN <<>>
    ELSE IF ~hash_match(Head(unique))
         THEN <<<<Head(unique).url, Head(unique).filepath>>>> \o unmatched_tasks(Tail(unique))
         ELSE unmatched_tasks(Tail(unique))

\* The rows are those of the csv file the remote serves (requests.get and
\* csv.DictReader with fieldnames hex_ver, hash, elixir_ver).
download_and_process_hex_csv(download_dir, csv_file, file_prefix, file_suffix) ==
    unmatched_tasks(unique_filepaths(<<>>, manifests[csv_file], download_dir,
                                     file_prefix, file_suffix))

-----------------------------------------------------------------------------
(* get_extra_files_list                                                    *)

extra_files ==
    << "names", "versions",
       "installs/hex-1.x.csv", "installs/hex-1.x.csv.signed",
       "installs/rebar-1.x.csv", "installs/rebar-1.x.csv.signed",
       "installs/rebar3-1.x.csv", "installs/rebar3-1.x.csv.signed",
       "installs/public_keys.html" >>

\* The last loop: one task for every extra file, whatever the disk holds.
extra_tasks(download_dir) ==
    [i \in 1..Len(extra_files) |->
        <<"https://repo.hex.pm/" \o extra_files[i], path_join(download_dir, extra_files[i])>>]

\* Mutant: an extra file is fetched only when it is missing.
extra_tasks_if_missing(download_dir) ==
    SelectSeq(extra_tasks(download_dir), LAMBDA t : ~isfile(t[2]))

\* The three calls of download_and_process_hex_csv.
csv_tasks(download_dir) ==
    download_and_process_hex_csv(download_dir, "hex-1.x.csv", "hex", ".ez")
        \o download_and_process_hex_csv(download_dir, "rebar-1.x.csv", "rebar", "")
        \o download_and_process_hex_csv(download_dir, "rebar3-1.x.csv", "rebar3", "")

\* Mutant: the extra files are skipped when they are on disk.
get_extra_files_list_if_missing(download_dir) ==
    csv_tasks(download_dir) \o extra_tasks_if_missing(download_dir)

get_extra_files_list(download_dir) ==
    csv_tasks(download_dir) \o extra_tasks(download_dir)

-----------------------------------------------------------------------------
(* get_full_repo_data: what one batch of pages adds                         *)

\* API_PULL_JOBS: the pages of one batch and the processes of the pool.  The
\* source sets 25; the model runs the same code with a smaller pool.
API_PULL_JOBS == 2

\* The json of page n for a 200 response: an empty list past the last page.
page_json(n) == IF n \in 1..Len(pages) THEN pages[n] ELSE <<>>

\* Mutant: the loop over the batch stops at the first blank page.
RECURSIVE extend_until_blank(_, _)
extend_until_blank(list, batch) ==
    IF batch = <<>> \/ Head(batch) = <<>> THEN list
    ELSE extend_until_blank(list \o Head(batch), Tail(batch))

\* "for data in pages: if data: full_list.extend(data)"
RECURSIVE extend_with_pages(_, _)
extend_with_pages(list, batch) ==
    IF batch = <<>> THEN list
    ELSE IF Head(batch) # <<>>
         THEN extend_with_pages(list \o Head(batch), Tail(batch))
         ELSE extend_with_pages(list, Tail(batch))

\* "else: last_page = True", for any page of the batch
reached_blank_page(batch) == \E i \in 1..Len(batch) : batch[i] = <<>>

\* range(page_block_index, page_block_index + API_PULL_JOBS)
page_indexes(block_index) == block_index .. (block_index + API_PULL_JOBS - 1)

\* get_full_repo_data when every request is answered 200: batch after batch
\* until one holds a blank page.
RECURSIVE scan_batches(_, _)
scan_batches(list, block_index) ==
    LET batch == [i \in 1..API_PULL_JOBS |-> page_json(block_index + i - 1)]
        extended == extend_with_pages(list, batch)
    IN  IF reached_blank_page(batch) THEN extended
        ELSE scan_batches(extended, block_index + API_PULL_JOBS)

-----------------------------------------------------------------------------
(* Input sets                                                              *)

Releases == SeqsUpTo([version : Versions], MaxReleases)
Packages == [name : Names, releases : Releases]
ManifestRows == [hex_ver : HexVers, hash : Hashes, elixir_ver : ElixirVers]
CsvFiles == {"hex-1.x.csv", "rebar-1.x.csv", "rebar3-1.x.csv"}

\* The three manifests, with at most n rows together.
ManifestsUpTo(n) ==
    UNION {UNION {UNION {
        {[c \in CsvFiles |-> CASE c = "hex-1.x.csv" -> h
                               [] c = "rebar-1.x.csv" -> r
                               [] OTHER -> r3] :
            h \in [1..kh -> ManifestRows], r \in [1..kr -> ManifestRows],
            r3 \in [1..k3 -> ManifestRows]}
        : k3 \in 0..(n - kh - kr)} : kr \in 0..(n - kh)} : kh \in 0..n}

NoManifests == [c \in CsvFiles |-> <<>>]

\* The packages and releases of a catalog, counted together.
RECURSIVE CatalogSize(_)
CatalogSize(packages) ==
    IF packages = <<>> THEN 0
    ELSE 1 + Len(Head(packages).releases) + CatalogSize(Tail(packages))

\* The catalogs of at most n packages and releases together.
CatalogsUpTo(n) ==
    UNION {{c \in [1..k -> [name : Names, releases : SeqsUpTo([version : Versions], n - k)]] :
                CatalogSize(c) <= n} : k \in 0..n}

\* The local paths the planner looks at for a catalog.
CatalogPaths(packages) ==
    UNION {{local_package_file(DownloadDir, packages[i].name)}
           \cup {local_file(DownloadDir, packages[i].name, packages[i].releases[r].version) :
                    r \in 1..Len(packages[i].releases)} : i \in 1..Len(packages)}

\* The local paths the manifest rows name.
ManifestPaths(m) ==
    {install_file(DownloadDir, m["hex-1.x.csv"][i], "hex", ".ez") :
        i \in 1..Len(m["hex-1.x.csv"])}
    \cup {install_file(DownloadDir, m["rebar-1.x.csv"][i], "rebar", "") :
        i \in 1..Len(m["rebar-1.x.csv"])}
    \cup {install_file(DownloadDir, m["rebar3-1.x.csv"][i], "rebar3", "") :
        i \in 1..Len(m["rebar3-1.x.csv"])}

ExtraPaths == {path_join(DownloadDir, extra_files[i]) : i \in 1..Len(extra_files)}

\* The disks that hold some of the files of P, each with a content of C.
Disks(P, C) == UNION {[S -> C] : S \in SUBSET P}

\* The union of two disks over disjoint paths.
Merge(d1, d2) ==
    [p \in (DOMAIN d1) \cup (DOMAIN d2) |-> IF p \in DOMAIN d1 THEN d1[p] ELSE d2[p]]

EmptyDisk == [p \in {} |-> ""]

-----------------------------------------------------------------------------
(* SpecPlan: determine_files_to_download on every catalog and disk          *)

InitPlan ==
    /\ full_list \in SeqsUpTo(Packages, MaxPackages)
    /\ disk \in Disks(CatalogPaths(full_list), {"x"})
    /\ manifests = NoManifests
    /\ pages = <<>>
    /\ pc = "plan"
    /\ extra_files_list = <<>>
    /\ download_list = <<>>
    /\ page_block_index = 1
    /\ last_page = FALSE
    /\ job = <<>>
    /\ task = <<>>
    /\ signal = "none"
    /\ dirs = DirsOf(disk)
    /\ verify = NoCall

\* download_list = determine_files_to_download(full_list, download_dir)
DetermineFiles ==
    /\ pc = "plan"
    /\ download_list' = determine_files_to_download(full_list, DownloadDir)
    /\ pc' = "planned"
    /\ UNCHANGED <<disk, manifests, pages, full_list, extra_files_list,
                   page_block_index, last_page, job, task, signal, dirs, verify>>

NextPlan == DetermineFiles

SpecPlan == InitPlan /\ [][NextPlan]_vars

-----------------------------------------------------------------------------
(* SpecMain: the task list main() hands to download_files_in_parallel       *)

InitMain ==
    /\ pages \in {<<c>> : c \in CatalogsUpTo(MaxRemote)}
    /\ manifests \in ManifestsUpTo(MaxRemote - CatalogSize(pages[1]))
    /\ \E dc \in Disks(CatalogPaths(pages[1]), {"x"}),
          dm \in Disks(ManifestPaths(manifests), {"x", "y"}),
          de \in {EmptyDisk, [p \in ExtraPaths |-> "x"]} :
            disk = Merge(dc, Merge(dm, de))
    /\ pc = "main"
    /\ full_list = <<>>
    /\ extra_files_list = <<>>
    /\ download_list = <<>>
    /\ page_block_index = 1
    /\ last_page = FALSE
    /\ job = <<>>
    /\ task = <<>>
    /\ signal = "none"
    /\ dirs = DirsOf(disk)
    /\ verify = NoCall

\* extra_files_list = get_extra_files_list(download_dir)
MainExtraFiles ==
    /\ pc = "main"
    /\ extra_files_list' = get_extra_files_list(DownloadDir)
    /\ pc' = "extra"
    /\ UNCHANGED <<disk, manifests, pages, full_list, download_list,
                   page_block_index, last_page, job, task, signal, dirs, verify>>

\* full_list = get_full_repo_data(), every page request answered 200
MainFullRepoData ==
    /\ pc = "extra"
    /\ full_list' = scan_batches(<<>>, 1)
    /\ pc' = "catalog"
    /\ UNCHANGED <<disk, manifests, pages, extra_files_list, download_list,
                   page_block_index, last_page, job, task, signal, dirs, verify>>

\* download_list = determine_files_to_download(full_list, download_dir)
MainDetermineFiles ==
    /\ pc = "catalog"
    /\ download_list' = determine_files_to_download(full_list, DownloadDir)
    /\ pc' = "planned"
    /\ UNCHANGED <<disk, manifests, pages, full_list, extra_files_list,
                   page_block_index, last_page, job, task, signal, dirs, verify>>

\* download_list.extend(extra_files_list), the list download_files_in_parallel gets
MainExtend ==
    /\ pc = "planned"
    /\ download_list' = download_list \o extra_files_list
    /\ pc' = "download"
    /\ UNCHANGED <<disk, manifests, pages, full_list, extra_files_list,
                   page_block_index, last_page, job, task, signal, dirs, verify>>

NextMain == MainExtraFiles \/ MainFullRepoData \/ MainDetermineFiles \/ MainExtend

SpecMain == InitMain /\ [][NextMain]_vars

-----------------------------------------------------------------------------
(* download_package_page and error                                          *)

\* The statuses of the catalog API besides 200 and 429.
ErrorCodes == {500}

\* "https://hex.pm/api/packages?page=%u" % page
page_url(page) == <<"https://hex.pm/api/packages?page=", page>>

\* A download_package_page call as a pool worker starts it: code = 429,
\* page_data = [], nothing requested yet.
new_job(page) ==
    [state |-> "running", url |-> page_url(page), page_data |-> <<>>,
     requests |-> <<>>, pauses |-> 0]

\* Mutant: a rate-limited request is repeated without the pause.
after_response_no_sleep(j, code) ==
    LET asked == [j EXCEPT !.requests = Append(@, [url |-> j.url, code |-> code])]
    IN  IF code = 200
        THEN [asked EXCEPT !.state = "done", !.page_data = page_json(j.url[2])]
        ELSE IF code = 429
             THEN asked
             ELSE [asked EXCEPT !.state = "exited"]

\* One turn of "while code == 429" and what follows the loop: the request
\* of url is answered code.  200: r.json() is returned to the pool.  429:
\* time.sleep(1) and the loop goes on with the same url.  Any other code:
\* error() prints and calls exit(1), which ends the worker process; the pool
\* gets no result for the call.
after_response(j, code) ==
    LET asked == [j EXCEPT !.requests = Append(@, [url |-> j.url, code |-> code])]
    IN  IF code = 200
        THEN [asked EXCEPT !.state = "done", !.page_data = page_json(j.url[2])]
        ELSE IF code = 429
             THEN [asked EXCEPT !.pauses = @ + 1]
             ELSE [asked EXCEPT !.state = "exited"]

\* How many requests of the call were answered code.
Answered(j, code) == Cardinality({i \in 1..Len(j.requests) : j.requests[i].code = code})

-----------------------------------------------------------------------------
(* SpecFetch: get_full_repo_data                                            *)

\* The json of a catalog page: blank, or one package.
PageContents == {<<>>} \cup {<<p>> : p \in [name : Names, releases : {<<>>}]}

\* process_multitasker.map(download_package_page, page_indexes, 1) hands
\* every page of the batch to a pool process of its own.
new_batch(block_index) == [page \in page_indexes(block_index) |-> new_job(page)]

InitFetch ==
    /\ pages \in SeqsUpTo(PageContents, MaxPages)
    /\ disk = EmptyDisk
    /\ manifests = NoManifests
    /\ pc = "map"
    /\ full_list = <<>>
    /\ extra_files_list = <<>>
    /\ download_list = <<>>
    /\ page_block_index = 1
    /\ last_page = FALSE
    /\ job = new_batch(1)
    /\ task = <<>>
    /\ signal = "none"
    /\ dirs = DirsOf(disk)
    /\ verify = NoCall

FetchUnchanged ==
    UNCHANGED <<disk, manifests, pages, extra_files_list, download_list, task, signal,
                dirs, verify>>

\* The request of a page is answered 200.
PageOk(page) ==
    /\ pc = "map"
    /\ job[page].state = "running"
    /\ job' = [job EXCEPT ![page] = after_response(@, 200)]
    /\ UNCHANGED <<pc, full_list, page_block_index, last_page>>
    /\ FetchUnchanged

\* The request of a page is answered 429.
PageRateLimited(page) ==
    /\ pc = "map"
    /\ job[page].state = "running"
    /\ Answered(job[page], 429) < MaxRateLimits
    /\ job' = [job EXCEPT ![page] = after_response(@, 429)]
    /\ UNCHANGED <<pc, full_list, page_block_index, last_page>>
    /\ FetchUnchanged

\* The request of a page is answered with another status.
PageError(page) ==
    /\ pc = "map"
    /\ job[page].state = "running"
    /\ \E code \in ErrorCodes : job' = [job EXCEPT ![page] = after_response(@, code)]
    /\ UNCHANGED <<pc, full_list, page_block_index, last_page>>
    /\ FetchUnchanged

\* map returns once the pool has the result of every call of the batch; the
\* loop over the results, the next batch or the return of full_list.
MapReturn ==
    /\ pc = "map"
    /\ \A page \in DOMAIN job : job[page].state = "done"
    /\ LET batch == [i \in 1..API_PULL_JOBS |-> job[page_block_index + i - 1].page_data]
           blank == last_page \/ reached_blank_page(batch)
       IN  /\ full_list' = extend_with_pages(full_list, batch)
           /\ last_page' = blank
           /\ page_block_index' = page_block_index + API_PULL_JOBS
           /\ IF blank
              THEN pc' = "returned" /\ job' = job
              ELSE pc' = "map" /\ job' = new_batch(page_block_index + API_PULL_JOBS)
    /\ FetchUnchanged

NextFetch ==
    \/ \E page \in DOMAIN job : PageOk(page)
    \/ \E page \in DOMAIN job : PageRateLimited(page)
    \/ \E page \in DOMAIN job : PageError(page)
    \/ MapReturn

SpecFetch == InitFetch /\ [][NextFetch]_vars

\* The request of a page of the batch is answered with a status other than 429.
PageAnswered(page) ==
    /\ page \in DOMAIN job
    /\ PageOk(page) \/ PageError(page)

\* get_full_repo_data with a remote that answers every page request, after
\* any 429s, with another status, and a main process that goes on when
\* process_multitasker.map has its results.
SpecFetchFair ==
    /\ SpecFetch
    /\ \A page \in 1..(MaxPages + 2 * API_PULL_JOBS) : WF_vars(PageAnswered(page))
    /\ WF_vars(MapReturn)

-----------------------------------------------------------------------------
(* download_file                                                            *)

\* The statuses of the file host besides 200.
FileErrorCodes == {404}

\* r.content of a 200 response, and what a file holds of it when the write
\* has gone part of the way.
Body == "xy"
PartOfBody == "x"

\* Mutant: the url and the file path of the tuple are taken for each other.
new_task_swapped(url_and_file) ==
    [state |-> "queued", url |-> url_and_file[2], filepath |-> url_and_file[1],
     code |-> 0, cause |-> "none", requests |-> 0, unlinked |-> FALSE]

\* A download_file call the pool has not started yet; requests counts the
\* requests.get calls made for its url; unlinked says that the file the call
\* has open has lost its path to the os.remove of another call.
new_task(url_and_file) ==
    [state |-> "queued", url |-> url_and_file[1], filepath |-> url_and_file[2],
     code |-> 0, cause |-> "none", requests |-> 0, unlinked |-> FALSE]

\* Mutant: a failed download removes the local file.
on_failed_status_remove(d, filepath) == RemoveFile(d, filepath)

\* "else: print('Failed to download: ...')": the disk after a response
\* whose status is not 200.
on_failed_status(d, filepath) == d

\* open(filepath, "w+b"): the file is created, or truncated when it exists.
open_truncate(d, filepath) == PutFile(d, filepath, "")

\* The bytes a file holds where nothing was written: n of them.
RECURSIVE Zeros(_)
Zeros(n) == IF n = 0 THEN "" ELSE "0" \o Zeros(n - 1)

\* A file content after bytes were written at offset: a content that ends
\* before the offset is filled up with zero bytes, bytes that were there are
\* overwritten, what lies behind them stays.
write_at(content, offset, bytes) ==
    LET filled == IF Len(content) < offset
                  THEN content \o Zeros(offset - Len(content))
                  ELSE content
    IN  SubSeq(filled, 1, offset) \o bytes
            \o SubSeq(filled, offset + Len(bytes) + 1, Len(filled))

\* f.write on the file object of a call, at the position of that object: the
\* bytes reach the file the call has opened, which is the file of filepath
\* unless another call has removed that path since; then no path has them.
file_write(d, filepath, unlinked, offset, bytes) ==
    IF unlinked THEN d
    ELSE [d EXCEPT ![filepath] = write_at(@, offset, bytes)]

\* r.content behind the part that a write has brought to the file first.
RestOfBody == SubSeq(Body, Len(PartOfBody) + 1, Len(Body))

\* "except: print(...); os.remove(filepath)": the file is removed and the
\* call returns; os.remove of a path with no file raises FileNotFoundError,
\* which leaves download_file.
except_handler(d, filepath) ==
    IF filepath \in DOMAIN d
    THEN [disk |-> RemoveFile(d, filepath), state |-> "failed"]
    ELSE [disk |-> d, state |-> "raised"]

-----------------------------------------------------------------------------
(* ensure_folders_exist                                                     *)

\* The loop over urls_and_files: os.makedirs for the directory of a file
\* path unless an earlier task of the list had the same directory.
RECURSIVE ensure_folders_loop(_, _, _)
ensure_folders_loop(ds, unique_dirs, urls_and_files) ==
    IF urls_and_files = <<>> THEN ds
    ELSE LET dir == dirname(Head(urls_and_files)[2])
         IN  IF dir \notin unique_dirs
             THEN ensure_folders_loop(makedirs(ds, dir), unique_dirs \cup {dir},
                                      Tail(urls_and_files))
             ELSE ensure_folders_loop(ds, unique_dirs, Tail(urls_and_files))

\* Mutant: the loop is left after the directory of the first task.
ensure_folders_exist_first_only(ds, urls_and_files) ==
    IF urls_and_files = <<>> THEN ds
    ELSE makedirs(ds, dirname(Head(urls_and_files)[2]))

\* The directories that exist once ensure_folders_exist has returned.
ensure_folders_exist(ds, urls_and_files) == ensure_folders_loop(ds, {}, urls_and_files)

-----------------------------------------------------------------------------
(* SpecExec: download_files_in_parallel                                     *)

\* Tasks with destinations of their own, as the planner makes them.
TaskPool ==
    << <<tarball_url("a", "1"), local_file(DownloadDir, "a", "1")>>,
       <<package_url("a"), local_package_file(DownloadDir, "a")>>,
       <<tarball_url("a", "2"), local_file(DownloadDir, "a", "2")>>,
       <<tarball_url("b", "1"), local_file(DownloadDir, "b", "1")>>,
       <<package_url("b"), local_package_file(DownloadDir, "b")>>,
       <<tarball_url("b", "2"), local_file(DownloadDir, "b", "2")>> >>

\* The states of a call that has ended.
Ended == {"fetched", "failed", "raised", "killed"}

InitExec ==
    /\ \E n \in 0..MaxTasks : n <= Len(TaskPool) /\ download_list = SubSeq(TaskPool, 1, n)
    /\ disk \in Disks({download_list[i][2] : i \in 1..Len(download_list)}, {"old"})
    /\ task = <<>>
    /\ pc = "download"
    /\ signal = "none"
    /\ manifests = NoManifests
    /\ pages = <<>>
    /\ full_list = <<>>
    /\ extra_files_list = <<>>
    /\ page_block_index = 1
    /\ last_page = FALSE
    /\ job = <<>>
    /\ dirs = DirsOf(disk)
    /\ verify = NoCall

ExecUnchanged ==
    UNCHANGED <<manifests, pages, full_list, extra_files_list, download_list,
                page_block_index, last_page, job, dirs, verify>>

\* download_files_in_parallel up to the creation of the pool: the folders,
\* then the list of the download_file calls.
StartPool ==
    /\ pc = "download"
    /\ dirs' = ensure_folders_exist(dirs, download_list)
    /\ task' = [i \in 1..Len(download_list) |-> new_task(download_list[i])]
    /\ pc' = "pool"
    /\ UNCHANGED <<disk, manifests, pages, full_list, extra_files_list, download_list,
                   page_block_index, last_page, job, signal, verify>>

\* The processes of the pool run as long as they have not been killed.
Alive == pc = "pool" /\ signal # "killed"

\* A free pool process takes the next call of the list and sends its request.
StartTask(i) ==
    /\ Alive
    /\ task[i].state = "queued"
    /\ \A j \in 1..(i - 1) : task[j].state # "queued"
    /\ Cardinality({j \in DOMAIN task : task[j].state \notin Ended \cup {"queued"}}) < NumJobs
    /\ task' = [task EXCEPT ![i].state = "request", ![i].requests = @ + 1]
    /\ UNCHANGED <<disk, pc, signal>>
    /\ ExecUnchanged

\* requests.get returns with status 200: the call enters the try block.
Response200(i) ==
    /\ Alive
    /\ task[i].state = "request"
    /\ task' = [task EXCEPT ![i].state = "try", ![i].code = 200]
    /\ UNCHANGED <<disk, pc, signal>>
    /\ ExecUnchanged

\* Mutant: a call that got another status goes back to the queue.
ResponseFailed_requeue(i) ==
    /\ Alive
    /\ task[i].state = "request"
    /\ \E code \in FileErrorCodes :
          task' = [task EXCEPT ![i].state = "queued", ![i].code = code]
    /\ UNCHANGED <<disk, pc, signal>>
    /\ ExecUnchanged

\* requests.get returns with another status: the call prints and returns.
ResponseFailed(i) ==
    /\ Alive
    /\ task[i].state = "request"
    /\ \E code \in FileErrorCodes :
          task' = [task EXCEPT ![i].state = "failed", ![i].code = code]
    /\ disk' = on_failed_status(disk, task[i].filepath)
    /\ UNCHANGED <<pc, signal>>
    /\ ExecUnchanged

\* open(filepath, "w+b") succeeds.
OpenFile(i) ==
    /\ Alive
    /\ task[i].state = "try"
    /\ disk' = open_truncate(disk, task[i].filepath)
    /\ task' = [task EXCEPT ![i].state = "opened"]
    /\ UNCHANGED <<pc, signal>>
    /\ ExecUnchanged

\* open(filepath, "w+b") raises OSError: nothing is created or truncated.
OpenFails(i) ==
    /\ Alive
    /\ task[i].state = "try"
    /\ task' = [task EXCEPT ![i].state = "except", ![i].cause = "open"]
    /\ UNCHANGED <<disk, pc, signal>>
    /\ ExecUnchanged

\* A part of r.content reaches the file.
WritePart(i) ==
    /\ Alive
    /\ task[i].state = "opened"
    /\ disk' = file_write(disk, task[i].filepath, task[i].unlinked, 0, PartOfBody)
    /\ task' = [task EXCEPT ![i].state = "partial"]
    /\ UNCHANGED <<pc, signal>>
    /\ ExecUnchanged

\* The rest of r.content reaches the file, "Downloaded" is printed, the file
\* is closed and the call returns.
WriteRest(i) ==
    /\ Alive
    /\ task[i].state = "partial"
    /\ disk' = file_write(disk, task[i].filepath, task[i].unlinked, Len(PartOfBody), RestOfBody)
    /\ task' = [task EXCEPT ![i].state = "fetched"]
    /\ UNCHANGED <<pc, signal>>
    /\ ExecUnchanged

\* f.write raises OSError before or after a part was written; the with
\* block closes the file.
WriteFails(i) ==
    /\ Alive
    /\ task[i].state \in {"opened", "partial"}
    /\ task' = [task EXCEPT ![i].state = "except", ![i].cause = "write"]
    /\ UNCHANGED <<disk, pc, signal>>
    /\ ExecUnchanged

\* The calls after os.remove(filepath) has removed a file: those that have
\* that file open keep it, without a path.
after_remove(calls, filepath) ==
    [j \in DOMAIN calls |->
        IF calls[j].filepath = filepath /\ calls[j].state \in {"opened", "partial"}
        THEN [calls[j] EXCEPT !.unlinked = TRUE]
        ELSE calls[j]]

\* The bare except clause.
ExceptHandler(i) ==
    /\ Alive
    /\ task[i].state = "except"
    /\ disk' = except_handler(disk, task[i].filepath).disk
    /\ task' = [(IF isfile(task[i].filepath)
                 THEN after_remove(task, task[i].filepath)
                 ELSE task)
                    EXCEPT ![i].state = except_handler(disk, task[i].filepath).state]
    /\ UNCHANGED <<pc, signal>>
    /\ ExecUnchanged

\* p.map returns when every call has ended: normally, or by raising the
\* exception of a call in the main process.  An interrupted main process
\* leaves p.map with KeyboardInterrupt and terminates the pool instead.
MapEnds ==
    /\ Alive
    /\ signal = "none"
    /\ \A i \in DOMAIN task : task[i].state \in Ended
    /\ pc' = IF \E i \in DOMAIN task : task[i].state = "raised" THEN "raised" ELSE "done"
    /\ UNCHANGED <<disk, task, signal>>
    /\ ExecUnchanged

\* SIGINT reaches the process group: KeyboardInterrupt is raised in every
\* process.  A call inside the try block catches it in its bare except
\* clause; the process of a call waiting in requests.get ends.
KeyboardInterrupt ==
    /\ pc = "pool"
    /\ signal = "none"
    /\ signal' = "SIGINT"
    /\ task' = [i \in DOMAIN task |->
                  IF task[i].state \in {"try", "opened", "partial"}
                  THEN [task[i] EXCEPT !.state = "except", !.cause = "interrupt"]
                  ELSE IF task[i].state = "request"
                       THEN [task[i] EXCEPT !.state = "killed", !.cause = "interrupt"]
                       ELSE task[i]]
    /\ UNCHANGED <<disk, pc>>
    /\ ExecUnchanged

\* The processes are ended where they stand: SIGKILL, SIGTERM (also the
\* pool.terminate() of an interrupted main process), a power cut.
Kill ==
    /\ pc = "pool"
    /\ signal # "killed"
    /\ signal' = "killed"
    /\ UNCHANGED <<disk, pc, task>>
    /\ ExecUnchanged

NextExec ==
    \/ StartPool
    \/ \E i \in DOMAIN task : StartTask(i)
    \/ \E i \in DOMAIN task : Response200(i)
    \/ \E i \in DOMAIN task : ResponseFailed(i)
    \/ \E i \in DOMAIN task : OpenFile(i)
    \/ \E i \in DOMAIN task : OpenFails(i)
    \/ \E i \in DOMAIN task : WritePart(i)
    \/ \E i \in DOMAIN task : WriteRest(i)
    \/ \E i \in DOMAIN task : WriteFails(i)
    \/ \E i \in DOMAIN task : ExceptHandler(i)
    \/ MapEnds
    \/ KeyboardInterrupt
    \/ Kill

SpecExec == InitExec /\ [][NextExec]_vars

-----------------------------------------------------------------------------
(* SpecVerify: file_with_hash_exists on a path and a digest string, and the *)
(* manifest tasks on the same disk                                          *)

\* Digest strings as a caller or a manifest may write them: hex digits in
\* lower case, in upper case, mixed.
Digests == Hashes \cup {"AB", "Cd"}

VerifyRows == [hex_ver : HexVers, hash : Digests, elixir_ver : ElixirVers]

VerifyPaths == {install_file(DownloadDir, row, "hex", ".ez") : row \in VerifyRows}

InitVerify ==
    /\ \E rows \in SeqsUpTo(VerifyRows, MaxVerifyRows) :
          manifests = [NoManifests EXCEPT !["hex-1.x.csv"] = rows]
    /\ disk \in Disks(VerifyPaths, {"x", "y"})
    /\ verify \in [state : {"called"}, filepath : VerifyPaths, hash : Digests]
    /\ dirs = DirsOf(disk)
    /\ pc = "main"
    /\ pages = <<>>
    /\ full_list = <<>>
    /\ extra_files_list = <<>>
    /\ download_list = <<>>
    /\ page_block_index = 1
    /\ last_page = FALSE
    /\ job = <<>>
    /\ task = <<>>
    /\ signal = "none"

\* The call returns.
FileWithHashExists ==
    /\ verify.state = "called"
    /\ verify' = [state |-> "returned", filepath |-> verify.filepath, hash |-> verify.hash,
                  result |-> file_with_hash_exists(verify.filepath, verify.hash)]
    /\ UNCHANGED <<disk, manifests, pages, pc, full_list, extra_files_list, download_list,
                   page_block_index, last_page, job, task, signal, dirs>>

NextVerify == FileWithHashExists \/ MainExtraFiles

SpecVerify == InitVerify /\ [][NextVerify]_vars

-----------------------------------------------------------------------------
(* SpecRun: main() from its first line to the return of                     *)
(* download_files_in_parallel, and main() of the next invocation up to the  *)
(* list it hands over.  SpecConverge: the same, with every request answered *)
(* 200 and every open and write going well.                                 *)

\* The catalogs of the runs: none, a package without a release, a package
\* with a release, a package the catalog lists twice.
RunCatalogs ==
    { <<>>,
      <<[name |-> "a", releases |-> <<>>]>>,
      <<[name |-> "a", releases |-> <<[version |-> "1"]>>]>>,
      <<[name |-> "a", releases |-> <<>>], [name |-> "a", releases |-> <<>>]>> }

InitRun ==
    /\ pages \in {<<c>> : c \in RunCatalogs}
    /\ manifests = NoManifests
    /\ disk \in Disks(CatalogPaths(pages[1]), {"old"})
    /\ dirs = DirsOf(disk)
    /\ pc = "main"
    /\ full_list = <<>>
    /\ extra_files_list = <<>>
    /\ download_list = <<>>
    /\ page_block_index = 1
    /\ last_page = FALSE
    /\ job = <<>>
    /\ task = <<>>
    /\ signal = "none"
    /\ verify = NoCall

\* The download_file call got a status other than 200, or its open or its
\* write failed.
TaskFailed(i) ==
    \/ task[i].code \in FileErrorCodes
    \/ task[i].cause \in {"open", "write"}

\* How many calls of the run have failed.
RunFailures == Cardinality({i \in DOMAIN task : TaskFailed(i)})

\* The next invocation, the remote unchanged, on the disk the run has left:
\* main() up to the list it hands to download_files_in_parallel.
MainAgain ==
    /\ pc \in {"done", "raised"}
    /\ extra_files_list' = get_extra_files_list(DownloadDir)
    /\ full_list' = scan_batches(<<>>, 1)
    /\ download_list' = determine_files_to_download(full_list', DownloadDir)
                            \o extra_files_list'
    /\ pc' = "replanned"
    /\ UNCHANGED <<disk, manifests, pages, page_block_index, last_page, job, task,
                   signal, dirs, verify>>

NextRun ==
    \/ MainExtraFiles
    \/ MainFullRepoData
    \/ MainDetermineFiles
    \/ MainExtend
    \/ StartPool
    \/ \E i \in DOMAIN task : StartTask(i)
    \/ \E i \in DOMAIN task : Response200(i)
    \/ \E i \in DOMAIN task : RunFailures < MaxRunFailures /\ ResponseFailed(i)
    \/ \E i \in DOMAIN task : OpenFile(i)
    \/ \E i \in DOMAIN task : RunFailures < MaxRunFailures /\ OpenFails(i)
    \/ \E i \in DOMAIN task : WritePart(i)
    \/ \E i \in DOMAIN task : WriteRest(i)
    \/ \E i \in DOMAIN task : RunFailures < MaxRunFailures /\ WriteFails(i)
    \/ \E i \in DOMAIN task : ExceptHandler(i)
    \/ MapEnds
    \/ MainAgain

SpecRun == InitRun /\ [][NextRun]_vars

NextConverge ==
    \/ MainExtraFiles
    \/ MainFullRepoData
    \/ MainDetermineFiles
    \/ MainExtend
    \/ StartPool
    \/ \E i \in DOMAIN task : StartTask(i)
    \/ \E i \in DOMAIN task : Response200(i)
    \/ \E i \in DOMAIN task : OpenFile(i)
    \/ \E i \in DOMAIN task : WritePart(i)
    \/ \E i \in DOMAIN task : WriteRest(i)
    \/ MapEnds
    \/ MainAgain

SpecConverge == InitRun /\ [][NextConverge]_vars

-----------------------------------------------------------------------------
(* Properties of the planner and of the assembled task list                 *)

tarball_task(name, version) ==
    <<tarball_url(name, version), local_file(DownloadDir, name, version)>>

package_task(name) == <<package_url(name), local_package_file(DownloadDir, name)>>

\* How many tasks of list are t.
Count(list, t) == Cardinality({i \in 1..Len(list) : list[i] = t})

\* Every tarball and every package file of the catalog is on disk.
AllCatalogFilesExist(packages) == \A p \in CatalogPaths(packages) : isfile(p)

\* Package i of the catalog has a release whose tarball task is in list.
HasTarballTask(list, i) ==
    \E r \in 1..Len(full_list[i].releases) :
        tarball_task(full_list[i].name, full_list[i].releases[r].version) \in Range(list)

\* C1: planning against a disk that holds the tarball of every release and the
\* package file of every package of the catalog returns no task.
C1_PlannerIdempotence ==
    (pc = "planned" /\ AllCatalogFilesExist(full_list)) => download_list = <<>>

C1_Witness ==
    /\ pc = "planned"
    /\ AllCatalogFilesExist(full_list)
    /\ Len(full_list) = 2
    /\ full_list[1].name # full_list[2].name
    /\ Len(full_list[1].releases) = 2
    /\ Len(full_list[2].releases) = 1
    /\ download_list = <<>>

\* C2 as claimed: a package with a tarball task in the plan has exactly one
\* task for its package file in the plan, whether or not the package file
\* is on disk.
C2_DirtyPropagation ==
    pc = "planned" =>
        \A i \in 1..Len(full_list) :
            HasTarballTask(download_list, i) =>
                Count(download_list, package_task(full_list[i].name)) = 1

\* The digests the three manifests record for a local path.
RecordedHashes(filepath) ==
    {manifests["hex-1.x.csv"][i].hash : i \in {k \in 1..Len(manifests["hex-1.x.csv"]) :
        install_file(DownloadDir, manifests["hex-1.x.csv"][k], "hex", ".ez") = filepath}}
    \cup {manifests["rebar-1.x.csv"][i].hash : i \in {k \in 1..Len(manifests["rebar-1.x.csv"]) :
        install_file(DownloadDir, manifests["rebar-1.x.csv"][k], "rebar", "") = filepath}}
    \cup {manifests["rebar3-1.x.csv"][i].hash : i \in {k \in 1..Len(manifests["rebar3-1.x.csv"]) :
        install_file(DownloadDir, manifests["rebar3-1.x.csv"][k], "rebar3", "") = filepath}}

\* The file is on disk and the hex digest of its content is, letter for
\* letter, one of the digests recorded for its path.
MatchesRecorded(filepath) ==
    isfile(filepath) /\ sha512_hexdigest(disk[filepath]) \in RecordedHashes(filepath)

\* The local directory holds every mirrored file, the manifest files with
\* matching content.
FullyPopulated ==
    /\ AllCatalogFilesExist(pages[1])
    /\ \A p \in ManifestPaths(manifests) : MatchesRecorded(p)
    /\ \A p \in ExtraPaths : isfile(p)

\* The nine files that are fetched on every run.
AuxiliaryTasks ==
    << <<"https://repo.hex.pm/names", "./repo.hex.pm/names">>,
       <<"https://repo.hex.pm/versions", "./repo.hex.pm/versions">>,
       <<"https://repo.hex.pm/installs/hex-1.x.csv", "./repo.hex.pm/installs/hex-1.x.csv">>,
       <<"https://repo.hex.pm/installs/hex-1.x.csv.signed",
         "./repo.hex.pm/installs/hex-1.x.csv.signed">>,
       <<"https://repo.hex.pm/installs/rebar-1.x.csv", "./repo.hex.pm/installs/rebar-1.x.csv">>,
       <<"https://repo.hex.pm/installs/rebar-1.x.csv.signed",
         "./repo.hex.pm/installs/rebar-1.x.csv.signed">>,
       <<"https://repo.hex.pm/installs/rebar3-1.x.csv", "./repo.hex.pm/installs/rebar3-1.x.csv">>,
       <<"https://repo.hex.pm/installs/rebar3-1.x.csv.signed",
         "./repo.hex.pm/installs/rebar3-1.x.csv.signed">>,
       <<"https://repo.hex.pm/installs/public_keys.html",
         "./repo.hex.pm/installs/public_keys.html">> >>

\* C3 as claimed: with a fully populated local directory the list handed to
\* the download executor is empty.
C3_EmptyWhenPopulated ==
    (pc = "download" /\ FullyPopulated) => download_list = <<>>

\* C3 as amended: with a fully populated local directory the list handed to
\* the download executor holds no catalog task and no manifest task: it is
\* the nine always-fetched auxiliary files and nothing else.
C3_OnlyAuxiliaryWhenPopulated ==
    (pc = "download" /\ FullyPopulated) => download_list = AuxiliaryTasks

C3_Witness ==
    /\ pc = "download"
    /\ FullyPopulated
    /\ Len(full_list) = 1
    /\ Len(full_list[1].releases) = 1
    /\ Cardinality(ManifestPaths(manifests)) = 1
    /\ Len(download_list) = 9

\* The tasks of determine_files_to_download and of the three
\* download_and_process_hex_csv calls, once main has them.
PlannerTasks ==
    IF pc = "planned" THEN download_list
    ELSE IF pc = "download"
         THEN SubSeq(download_list, 1, Len(download_list) - Len(extra_files_list))
         ELSE <<>>

ManifestTasks ==
    IF pc = "main" THEN <<>>
    ELSE SubSeq(extra_files_list, 1, Len(extra_files_list) - Len(extra_files))

\* A manifest task goes to a file that is missing or matches no recorded digest.
ManifestTasksUnverified ==
    \A t \in Range(ManifestTasks) : ~MatchesRecorded(t[2])

\* C4 as claimed: every manifest task goes to a file that is missing or
\* matches no recorded digest, and every planner task goes to a missing file.
C4_TasksOnlyForMissing ==
    /\ ManifestTasksUnverified
    /\ \A t \in Range(PlannerTasks) : ~isfile(t[2])

\* C4 as amended: every manifest task goes to a file that is missing or whose
\* digest string equals no recorded digest; every planner task goes to a
\* missing file, or is the package-file task of a package one of whose
\* tarball tasks is in the list.
C4_TasksOnlyForMissingOrDirty ==
    /\ ManifestTasksUnverified
    /\ \A t \in Range(PlannerTasks) :
          \/ ~isfile(t[2])
          \/ \E i \in 1..Len(full_list) :
                /\ t = package_task(full_list[i].name)
                /\ HasTarballTask(PlannerTasks, i)

\* A manifest task for a file on disk with another digest, next to a planner
\* task for a package file that is on disk.
C4_Witness ==
    /\ pc = "download"
    /\ \E t \in Range(ManifestTasks) : isfile(t[2])
    /\ \E t \in Range(PlannerTasks) : isfile(t[2])
    /\ \E t \in Range(PlannerTasks) : ~isfile(t[2])

-----------------------------------------------------------------------------
(* Properties of the catalog fetcher                                        *)

\* All the catalog pages before page n, in one list.
RECURSIVE PagesBefore(_)
PagesBefore(n) == IF n <= 1 THEN <<>> ELSE PagesBefore(n - 1) \o page_json(n - 1)

\* The first blank page of the catalog.
FirstBlankPage == CHOOSE n \in 1..(Len(pages) + 1) :
    page_json(n) = <<>> /\ \A m \in 1..(n - 1) : page_json(m) # <<>>

\* The first page after the batch that holds the first blank page.
EndOfBlankBatch ==
    ((FirstBlankPage - 1) \div API_PULL_JOBS) * API_PULL_JOBS + API_PULL_JOBS + 1

\* C5 as claimed: the returned catalog holds the packages of the pages before
\* the first blank page and no others.
C5_CutAtFirstBlankPage ==
    pc = "returned" => full_list = PagesBefore(FirstBlankPage)

\* C5 as amended: the scan stops after the first batch that holds a blank
\* page, and the returned catalog holds, in page order, the packages of every
\* page up to the end of that batch, those after the blank page included.
C5_CutAtEndOfBlankBatch ==
    pc = "returned" =>
        /\ full_list = PagesBefore(EndOfBlankBatch)
        /\ page_block_index = EndOfBlankBatch
        /\ DOMAIN job = page_indexes(EndOfBlankBatch - API_PULL_JOBS)

\* A batch with a blank page and a page with a package after it.
C5_Witness ==
    /\ pc = "returned"
    /\ \E page \in DOMAIN job :
          /\ page > FirstBlankPage
          /\ page_json(page) # <<>>
          /\ \E i \in 1..Len(full_list) : full_list[i] = page_json(page)[1]
    /\ page_block_index > API_PULL_JOBS + 1

\* The requests of a call so far are 429s, then at most one 200, all of them
\* for the page of the call.
RateLimitedThenOk(page) ==
    /\ \A i \in 1..Len(job[page].requests) :
          /\ job[page].requests[i].url = page_url(page)
          /\ job[page].requests[i].code = 429
                \/ (i = Len(job[page].requests) /\ job[page].requests[i].code = 200)

\* C6: a call whose requests were answered n times 429 has paused n times
\* and asked for the same page each time; it is still asking while no 200
\* has come, and once the 200 has come it has returned the data of that page
\* without an error.
C6_RateLimitRecovery ==
    \A page \in DOMAIN job :
        RateLimitedThenOk(page) =>
            /\ job[page].pauses = Answered(job[page], 429)
            /\ Answered(job[page], 200) = 0 => job[page].state = "running"
            /\ Answered(job[page], 200) = 1 =>
                  /\ job[page].state = "done"
                  /\ job[page].page_data = page_json(page)
                  /\ Len(job[page].requests) = job[page].pauses + 1

\* The requests of a page with a package were answered 429, 429, 200.
C6_Witness ==
    \E page \in DOMAIN job :
        /\ page_json(page) # <<>>
        /\ Len(job[page].requests) = 3
        /\ job[page].requests[1].code = 429
        /\ job[page].requests[2].code = 429
        /\ job[page].requests[3].code = 200
        /\ job[page].pauses = 2
        /\ job[page].state = "done"

\* C7 as claimed: once a page request of a pool worker has been answered
\* with a status that is neither 200 nor 429, the run has ended with an
\* error: the main process is not waiting for the batch.
C7_FatalErrorAborts ==
    (\E page \in DOMAIN job : job[page].state = "exited") => pc = "aborted"

-----------------------------------------------------------------------------
(* Properties of download_file                                              *)

\* C8 as claimed: a call that got a 200 response and whose open or write
\* failed ends as failed, without raising, and with no file at its
\* destination.
C8_PartialWriteCleanup ==
    \A i \in DOMAIN task :
        (task[i].cause \in {"open", "write"} /\ task[i].state \in Ended /\ signal = "none") =>
            /\ task[i].state = "failed"
            /\ ~isfile(task[i].filepath)

\* C9 as claimed: once an interrupt has ended the processes, every
\* destination is missing, or holds the whole response body, or holds its
\* whole previous content.
C9_InterruptSafety ==
    signal = "killed" =>
        \A i \in DOMAIN task :
            isfile(task[i].filepath) => disk[task[i].filepath] \in {Body, "old"}

\* C10: the step in which a call gets a response with a status other than
\* 200 leaves every local file as it was and ends the call as failed.
C10_FailedStatusTouchesNothing ==
    [][\A i \in DOMAIN task :
          (task[i].state = "request" /\ task'[i].code \in FileErrorCodes) =>
              (disk' = disk /\ task'[i].state = "failed")]_vars

\* A failed download next to its old file, and one that had no file.
C10_Witness ==
    /\ \E i \in DOMAIN task :
          /\ task[i].state = "failed"
          /\ task[i].code \in FileErrorCodes
          /\ isfile(task[i].filepath)
          /\ disk[task[i].filepath] = "old"
    /\ \E i \in DOMAIN task :
          /\ task[i].state = "failed"
          /\ task[i].code \in FileErrorCodes
          /\ ~isfile(task[i].filepath)

-----------------------------------------------------------------------------
(* Properties of download_files_in_parallel                                 *)

\* C11 as claimed: when a task of the list has failed (status other than 200,
\* failed open, failed write) and p.map has ended, every task of the list has
\* been attempted and download_files_in_parallel has returned: the run has
\* come to its end and not to an exception.
C11_FailureIsolation ==
    (pc \in {"done", "raised"} /\ \E i \in DOMAIN task : TaskFailed(i)) =>
        /\ \A j \in DOMAIN task : task[j].requests = 1
        /\ pc = "done"

-----------------------------------------------------------------------------
(* Properties of a run and the plan after it                                *)

\* The destinations of the tasks of list.
Destinations(list) == {list[i][2] : i \in 1..Len(list)}

\* The tasks of the list that come from determine_files_to_download: those
\* before the extra files list.
CatalogTasks == SubSeq(download_list, 1, Len(download_list) - Len(extra_files_list))

\* C12 as claimed: every task that failed in the run (status other than 200,
\* failed open, failed write) has a task for its destination in the list of
\* the next run.
C12_RetryOnNextRun ==
    pc = "replanned" =>
        \A i \in DOMAIN task :
            TaskFailed(i) => task[i].filepath \in Destinations(download_list)

\* C20: when every task that determine_files_to_download had planned was
\* downloaded with a 200 response and written to the end, planning again on
\* the same catalog returns no task.
C20_ConvergenceAfterSuccess ==
    (/\ pc = "replanned"
     /\ \A i \in DOMAIN task :
           task[i].filepath \in CatalogPaths(full_list) => task[i].state = "fetched") =>
        CatalogTasks = <<>>

\* A tarball and the file of its package, both planned and downloaded, and
\* the list of the next invocation with the extra files only.
C20_Witness ==
    /\ pc = "replanned"
    /\ Len(task) = 2 + Len(extra_files)
    /\ task[1].filepath = local_file(DownloadDir, "a", "1")
    /\ task[2].filepath = local_package_file(DownloadDir, "a")
    /\ \A i \in 1..2 : task[i].state = "fetched" /\ disk[task[i].filepath] = Body
    /\ CatalogTasks = <<>>
    /\ Len(download_list) = Len(extra_files)

\* C16: while the pool of download_files_in_parallel exists, the directory
\* of the destination of every task of the list exists, so it was created
\* before a worker sent its first request or opened its first file; and no
\* step of a worker changes the set of directories.
C16_DirectoryBarrier ==
    /\ [](pc = "pool" =>
            \A i \in DOMAIN task : dirname(task[i].filepath) \in dirs)
    /\ [][pc = "pool" => dirs' = dirs]_vars

\* A worker has sent the request of a task whose directory holds no file
\* yet, and another task of another directory is still in the queue.
C16_Witness ==
    /\ pc = "pool"
    /\ \E i, j \in DOMAIN task :
          /\ task[i].state = "request"
          /\ task[j].state = "queued"
          /\ dirname(task[i].filepath) # dirname(task[j].filepath)
          /\ dirname(task[i].filepath) \notin DirsOf(disk)
          /\ dirname(task[j].filepath) \notin DirsOf(disk)
          /\ {dirname(task[i].filepath), dirname(task[j].filepath)} \subseteq dirs

-----------------------------------------------------------------------------
(* Properties of the manifest resolver and of file_with_hash_exists         *)

\* How many tasks of list go to filepath.
TasksTo(list, filepath) == Cardinality({i \in 1..Len(list) : list[i][2] = filepath})

\* C13: for every path the rows of the manifests map to, the manifest tasks
\* hold one task for it when the file is missing or its digest is none of
\* the digests recorded for the path, and none when its digest is one of
\* them; never more than one, however many rows name the path.
C13_MultiHashAcceptance ==
    pc # "main" =>
        \A filepath \in ManifestPaths(manifests) :
            TasksTo(ManifestTasks, filepath) = IF MatchesRecorded(filepath) THEN 0 ELSE 1

\* Two rows with two digests for one file that has the first of them, and
\* a row for a file that has neither of its digests.
C13_Witness ==
    /\ pc = "download"
    /\ Len(manifests["hex-1.x.csv"]) = 3
    /\ LET rows == manifests["hex-1.x.csv"]
           file(i) == install_file(DownloadDir, rows[i], "hex", ".ez")
       IN  /\ file(1) = file(2)
           /\ rows[1].hash # rows[2].hash
           /\ file_with_hash_exists(file(1), rows[1].hash)
           /\ TasksTo(ManifestTasks, file(1)) = 0
           /\ file(3) # file(1)
           /\ isfile(file(3))
           /\ TasksTo(ManifestTasks, file(3)) = 1

\* A hex digit in lower case.
LowerChar(c) ==
    CASE c = "A" -> "a" [] c = "B" -> "b" [] c = "C" -> "c"
      [] c = "D" -> "d" [] c = "E" -> "e" [] c = "F" -> "f"
      [] OTHER -> c

\* A digest string in lower case.
RECURSIVE Lower(_)
Lower(s) == IF s = "" THEN "" ELSE LowerChar(SubSeq(s, 1, 1)) \o Lower(SubSeq(s, 2, Len(s)))

\* C14 as claimed: file_with_hash_exists returns true exactly when the file
\* exists and the hex digest of its content and the supplied digest are the
\* same string once letter case is ignored.
C14_CaseInsensitiveDigest ==
    verify.state = "returned" =>
        (verify.result <=>
            /\ isfile(verify.filepath)
            /\ Lower(sha512_hexdigest(disk[verify.filepath])) = Lower(verify.hash))

\* C15: file_with_hash_exists on a path with no file returns, and returns
\* false, whatever the digest; and the manifest tasks hold a task for every
\* path of the manifest that has no file.
C15_MissingFileIsNoMatch ==
    /\ verify.state \in {"called", "returned"}
    /\ (verify.state = "returned" /\ ~isfile(verify.filepath)) => verify.result = FALSE
    /\ pc # "main" =>
          \A filepath \in ManifestPaths(manifests) :
              ~isfile(filepath) => TasksTo(ManifestTasks, filepath) = 1

\* The call for the missing file of a manifest row, with the digest of the
\* row, has returned false, and the file has its task.
C15_Witness ==
    /\ pc = "extra"
    /\ verify.state = "returned"
    /\ ~isfile(verify.filepath)
    /\ verify.result = FALSE
    /\ Len(manifests["hex-1.x.csv"]) = 1
    /\ verify.filepath = install_file(DownloadDir, manifests["hex-1.x.csv"][1], "hex", ".ez")
    /\ verify.hash = manifests["hex-1.x.csv"][1].hash
    /\ ManifestTasks = <<<<install_url(manifests["hex-1.x.csv"][1], "hex", ".ez"),
                           verify.filepath>>>>

-----------------------------------------------------------------------------
(* Properties of the task list as the pool runs it                          *)

\* C17 as claimed: no two tasks of the list that main hands to
\* download_files_in_parallel have the same destination path.
C17_UniqueDestinations ==
    pc = "download" =>
        \A i, j \in 1..Len(download_list) :
            download_list[i][2] = download_list[j][2] => i = j

\* C18: the url of a task is never requested twice; a task a worker has
\* picked up has had its one request; and when p.map has ended every task
\* of the list has had exactly one, whether it was answered 200 or not.
C18_ExactlyOneFetch ==
    /\ \A i \in DOMAIN task :
          /\ task[i].requests <= 1
          /\ task[i].state # "queued" => task[i].requests = 1
    /\ pc \in {"done", "raised"} => \A i \in DOMAIN task : task[i].requests = 1

\* Three tasks on two processes: one answered 404, one written, one whose
\* write failed; p.map has returned.
C18_Witness ==
    /\ pc = "done"
    /\ Len(task) = 3
    /\ \E i \in DOMAIN task : task[i].state = "failed" /\ task[i].code \in FileErrorCodes
    /\ \E i \in DOMAIN task : task[i].state = "fetched"
    /\ \E i \in DOMAIN task : task[i].state = "failed" /\ task[i].cause = "write"
    /\ \A i \in DOMAIN task : task[i].requests = 1

-----------------------------------------------------------------------------
(* Termination of the catalog fetcher                                       *)

\* C19 as claimed: with every page request answered, in the end, with a
\* status other than 429, get_full_repo_data comes to its end; no page past
\* the first batch with a blank page is requested, and the scan that a blank
\* page has ended has seen no error.
C19_PaginationTermination ==
    /\ <>(pc \in {"returned", "aborted"})
    /\ [](\A page \in DOMAIN job : page < EndOfBlankBatch)
    /\ [](pc = "returned" => \A page \in DOMAIN job : job[page].state = "done")

=============================================================================
